---- MODULE Spec2Model ----
(***************************************************************************)
(* A model of cassis' CAS container (src/cassis/cas.py) and of its JSON    *)
(* wire format (src/cassis/json.py).                                       *)
(*                                                                         *)
(* Python objects live in heaps and are referred to by their position:     *)
(*   stores   - what one run of Cas.__init__ allocates: the two dicts      *)
(*              _views and _sofas and the two IdGenerators                 *)
(*   viewHeap - the View objects, each with the Sofa it owns               *)
(*   handles  - the Cas objects; a Cas holds four references into stores   *)
(*              and a reference to its current View                        *)
(*   fsHeap   - the FeatureStructure objects                               *)
(*   ret      - what the last call returned or raised                      *)
(*   wire     - the JSON data a serializer wrote or a deserializer is given *)
(*   des      - the deserializer's members and locals when it has returned *)
(* A dict is an insertion-ordered sequence of [k, v] entries.              *)
(***************************************************************************)
EXTENDS Integers, Sequences, FiniteSets, TLC

VARIABLES stores, viewHeap, handles, fsHeap, ret, wire, des

vars == <<stores, viewHeap, handles, fsHeap, ret, wire, des>>

-----------------------------------------------------------------------------
(* Bounds of the model *)

\* Cas objects (the document handle and the handles get_view / create_view return)
MaxHandles == 2
\* the largest identifier the document's generator issues
MaxXmiId == 4
\* sofa members (text, mime type, URI) that hold a string
MaxSofaSets == 1

-----------------------------------------------------------------------------
(* Values *)

\* Python's None: for a position in a heap and for an identifier that is not
\* given (both are positive when present), for a reference to an object, for
\* an optional string and for an optional offset
NoRef == 0
None == <<>>
NoneStr == "<None>"
NoPos == -1

\* references to objects: a Sofa (by the position of its View) or a
\* FeatureStructure
SofaRef(v) == <<"sofa", v>>
FsRef(o) == <<"fs", o>>

\* cas.py:121 - the view every Cas starts with
INITIAL_VIEW == "_InitialView"
\* the view names a client uses
ViewNames == {INITIAL_VIEW, "v1", "v2"}
\* the strings a client assigns to a sofa
SofaValues == {"text"}

\* sys.maxsize, cas.py:449 (the largest integer TLC represents)
MaxSize == 2147483647

\* The type system handed to the Cas: Ann and its descendants are annotations
\* (sofa, begin, end); Rel relates two feature structures (gov, dep); Top has
\* no features.
TypeNames == {"Top", "Ann", "Sub", "SubSub", "Rel", "Res"}
Children(t) == CASE t = "Ann" -> {"Sub"}
                 [] t = "Sub" -> {"SubSub"}
                 [] OTHER -> {}
\* Type.all_features, in declaration order
AllFeatures(t) == CASE t \in {"Ann", "Sub", "SubSub"} -> <<"sofa", "begin", "end">>
                    [] t = "Rel" -> <<"gov", "dep">>
                    [] t = "Res" -> <<"self_", "type_">>
                    [] OTHER -> <<>>
FeatureNames(t) == {AllFeatures(t)[i] : i \in 1..Len(AllFeatures(t))}
HasSpan(t) == {"begin", "end"} \subseteq FeatureNames(t)
HasSofa(t) == "sofa" \in FeatureNames(t)
\* TypeSystem.is_primitive of the feature's range type
IsPrimitive(feature) == feature \in {"begin", "end", "type_"}
\* Feature._has_reserved_name: the features self and type of a type carry
\* the names self_ and type_; feature.name[:-1] is the name without the
\* underscore
HasReservedName(feature) == feature \in {"self_", "type_"}
WithoutLast(name) == CASE name = "self_" -> "self"
                       [] name = "type_" -> "type"

\* the (begin, end) spans a client gives its annotations
Spans == {<<0, 10>>, <<2, 5>>, <<2, 11>>, <<5, 5>>}

-----------------------------------------------------------------------------
(* dict *)

DictHas(d, k) == \E i \in 1..Len(d) : d[i].k = k
DictGet(d, k) == d[CHOOSE i \in 1..Len(d) : d[i].k = k].v
DictPut(d, k, v) ==
    IF DictHas(d, k)
    THEN [i \in 1..Len(d) |-> IF d[i].k = k THEN [k |-> k, v |-> v] ELSE d[i]]
    ELSE Append(d, [k |-> k, v |-> v])
DictKeys(d) == {d[i].k : i \in 1..Len(d)}
DictValues(d) == [i \in 1..Len(d) |-> d[i].v]

-----------------------------------------------------------------------------
(* The sort key and the sorted list of a type bucket *)

\* _sort_func: (begin, end), or the sentinel for a structure without them
SortFunc(fs) == IF HasSpan(fs.type) THEN <<fs.begin, fs.end>> ELSE <<MaxSize, MaxSize>>

\* Python's tuple comparison
KeyLess(a, b) == a[1] < b[1] \/ (a[1] = b[1] /\ a[2] < b[2])
KeyLeq(a, b) == a = b \/ KeyLess(a, b)

\* bisect.bisect_right over keys[lo+1..hi] (0-based lo, hi as in Python)
RECURSIVE BisectRight(_, _, _, _)
BisectRight(keys, k, lo, hi) ==
    IF lo >= hi THEN lo
    ELSE LET mid == (lo + hi) \div 2
         IN IF KeyLess(k, keys[mid + 1])
            THEN BisectRight(keys, k, lo, mid)
            ELSE BisectRight(keys, k, mid + 1, hi)

\* bisect.bisect_left
RECURSIVE BisectLeft(_, _, _, _)
BisectLeft(keys, k, lo, hi) ==
    IF lo >= hi THEN lo
    ELSE LET mid == (lo + hi) \div 2
         IN IF KeyLess(keys[mid + 1], k)
            THEN BisectLeft(keys, k, mid + 1, hi)
            ELSE BisectLeft(keys, k, lo, mid)

\* list.insert(i, x), i 0-based
InsertAt(s, i, x) == SubSeq(s, 1, i) \o <<x>> \o SubSeq(s, i + 1, Len(s))

\* the keys of a bucket, a sequence of references into the heap fs
BucketKeys(fs, bucket) == [i \in 1..Len(bucket) |-> SortFunc(fs[bucket[i]])]

\* list.append in place of the sorted insertion
SortedAdd_append(fs, bucket, o) == Append(bucket, o)

\* insertion to the left of the equal keys
SortedAdd_bisectLeft(fs, bucket, o) ==
    InsertAt(bucket, BisectLeft(BucketKeys(fs, bucket), SortFunc(fs[o]), 0, Len(bucket)), o)

\* SortedKeyList.add: insert to the right of the equal keys
SortedAdd(fs, bucket, o) ==
    LET keys == BucketKeys(fs, bucket)
    IN InsertAt(bucket, BisectRight(keys, SortFunc(fs[o]), 0, Len(keys)), o)

-----------------------------------------------------------------------------
(* Cas. The operations take the memory m = [st, vw, hd, fs] and return the *)
(* memory after the call.                                                  *)

Mem == [st |-> stores, vw |-> viewHeap, hd |-> handles, fs |-> fsHeap]

\* View.__init__ around Sofa(...): text, mime type and URI default to None,
\* every bucket of the defaultdict is empty
NewView(xmiID, sofaNum, name) ==
    [xmiID |-> xmiID, sofaNum |-> sofaNum, sofaID |-> name,
     sofaString |-> NoneStr, mimeType |-> NoneStr, sofaURI |-> NoneStr,
     sofaArray |-> None,
     indices |-> [t \in TypeNames |-> <<>>]]

\* _add_view that names every sofa after the initial view
AddView_defaultName(m, h, name) ==
    LET c == m.hd[h]
        v == Len(m.vw) + 1
        m1 == [m EXCEPT !.st[c.xmiGen].xmiGen = @ + 1]
        m2 == [m1 EXCEPT !.st[c.numGen].numGen = @ + 1]
        m3 == [m2 EXCEPT !.vw = Append(@, NewView(m.st[c.xmiGen].xmiGen,
                                                  m.st[c.numGen].numGen, "_InitialView"))]
        m4 == [m3 EXCEPT !.st[c.views].views = DictPut(@, name, v)]
    IN [m4 EXCEPT !.st[c.sofas].sofas = DictPut(@, name, v)]

\* Cas._add_view through handle h: one identifier and one sofa number are
\* drawn from the generators h refers to, the view and its sofa are registered
AddView(m, h, name) ==
    LET c == m.hd[h]
        xmiID == m.st[c.xmiGen].xmiGen
        sofaNum == m.st[c.numGen].numGen
        v == Len(m.vw) + 1
        m1 == [m EXCEPT !.st[c.xmiGen].xmiGen = @ + 1]
        m2 == [m1 EXCEPT !.st[c.numGen].numGen = @ + 1]
        m3 == [m2 EXCEPT !.vw = Append(@, NewView(xmiID, sofaNum, name))]
        m4 == [m3 EXCEPT !.st[c.views].views = DictPut(@, name, v)]
    IN [m4 EXCEPT !.st[c.sofas].sofas = DictPut(@, name, v)]

\* Cas.__init__: fresh dicts and generators, the initial view, the current view
CasInit(m) ==
    LET s == Len(m.st) + 1
        h == Len(m.hd) + 1
        m1 == [m EXCEPT !.st = Append(@, [views |-> <<>>, sofas |-> <<>>,
                                           xmiGen |-> 1, numGen |-> 1]),
                        !.hd = Append(@, [views |-> s, sofas |-> s, xmiGen |-> s,
                                           numGen |-> s, cur |-> NoRef])]
        m2 == AddView(m1, h, INITIAL_VIEW)
    IN [m2 EXCEPT !.hd[h].cur = DictGet(m2.st[s].views, INITIAL_VIEW)]

\* _copy without the line result._xmi_id_generator = self._xmi_id_generator
Copy_ownXmiGen(m, h) ==
    LET m1 == CasInit(m)
        r == Len(m1.hd)
    IN [m1 EXCEPT !.hd[r] = [views |-> m.hd[h].views, sofas |-> m.hd[h].sofas,
                             cur |-> m.hd[h].cur, numGen |-> m.hd[h].numGen,
                             xmiGen |-> m1.hd[r].xmiGen]]

\* _copy without the line result._views = self._views
Copy_ownViews(m, h) ==
    LET m1 == CasInit(m)
        r == Len(m1.hd)
    IN [m1 EXCEPT !.hd[r] = [views |-> m1.hd[r].views, sofas |-> m.hd[h].sofas,
                             cur |-> m.hd[h].cur, numGen |-> m.hd[h].numGen,
                             xmiGen |-> m.hd[h].xmiGen]]

\* _copy that re-points the members before the initial view is added
Copy_sharedFirst(m, h) ==
    LET r == Len(m.hd) + 1
        m1 == AddView([m EXCEPT !.hd = Append(@, m.hd[h])], r, INITIAL_VIEW)
    IN [m1 EXCEPT !.hd[r].cur = m.hd[h].cur]

\* Cas._copy: a new Cas whose five members are then re-pointed to those of h
Copy(m, h) ==
    LET m1 == CasInit(m)
        r == Len(m1.hd)
    IN [m1 EXCEPT !.hd[r] = [views |-> m.hd[h].views, sofas |-> m.hd[h].sofas,
                             cur |-> m.hd[h].cur, numGen |-> m.hd[h].numGen,
                             xmiGen |-> m.hd[h].xmiGen]]

\* get_view that returns the copy without changing its current view
GetView_sameView(m, h, name) ==
    IF DictHas(m.st[m.hd[h].views].views, name)
    THEN [m |-> Copy(m, h), exc |-> "none", val |-> Len(Copy(m, h).hd)]
    ELSE [m |-> m, exc |-> "KeyError", val |-> NoRef]

\* Cas.get_view: [m, exc, val], val the handle returned
GetView(m, h, name) ==
    LET d == m.st[m.hd[h].views].views
    IN IF DictHas(d, name)
       THEN LET m1 == Copy(m, h)
                r == Len(m1.hd)
            IN [m |-> [m1 EXCEPT !.hd[r].cur = DictGet(d, name)], exc |-> "none", val |-> r]
       ELSE [m |-> m, exc |-> "KeyError", val |-> NoRef]

\* create_view that adds the view before it looks for the name
CreateView_addFirst(m, h, name) ==
    IF DictHas(m.st[m.hd[h].views].views, name)
    THEN [m |-> AddView(m, h, name), exc |-> "ValueError", val |-> NoRef]
    ELSE GetView(AddView(m, h, name), h, name)

\* Cas.create_view
CreateView(m, h, name) ==
    IF DictHas(m.st[m.hd[h].views].views, name)
    THEN [m |-> m, exc |-> "ValueError", val |-> NoRef]
    ELSE GetView(AddView(m, h, name), h, name)

\* Cas.get_sofa: the sofa of the current view (the View object carries it)
GetSofa(m, h) == m.hd[h].cur

\* the setters of Cas.sofa_string, Cas.sofa_mime and Cas.sofa_uri
SetSofaString(m, h, value) == [m EXCEPT !.vw[GetSofa(m, h)].sofaString = value]
SetSofaMime(m, h, value) == [m EXCEPT !.vw[GetSofa(m, h)].mimeType = value]
SetSofaURI(m, h, value) == [m EXCEPT !.vw[GetSofa(m, h)].sofaURI = value]

\* add_annotation that leaves an identifier the feature structure carries
AddAnnotation_keepId(m, h, o) ==
    LET c == m.hd[h]
        m1 == [m EXCEPT !.st[c.xmiGen].xmiGen = @ + 1]
        m2 == IF m.fs[o].xmiID = NoRef
              THEN [m1 EXCEPT !.fs[o].xmiID = m.st[c.xmiGen].xmiGen]
              ELSE m1
        m3 == IF HasSofa(m2.fs[o].type)
              THEN [m2 EXCEPT !.fs[o].sofa = SofaRef(GetSofa(m2, h))]
              ELSE m2
    IN [m3 EXCEPT !.vw[c.cur].indices[m3.fs[o].type] = SortedAdd(m3.fs, @, o)]

\* Cas.add_annotation of the feature structure o through handle h
AddAnnotation(m, h, o) ==
    LET c == m.hd[h]
        next_id == m.st[c.xmiGen].xmiGen
        m1 == [m EXCEPT !.st[c.xmiGen].xmiGen = @ + 1]
        m2 == [m1 EXCEPT !.fs[o].xmiID = next_id]
        m3 == IF HasSofa(m2.fs[o].type)
              THEN [m2 EXCEPT !.fs[o].sofa = SofaRef(GetSofa(m2, h))]
              ELSE m2
    IN [m3 EXCEPT !.vw[c.cur].indices[m3.fs[o].type] = SortedAdd(m3.fs, @, o)]

\* the order in which Python iterates over a set of type names: unspecified,
\* the same for every set here
TypeOrder == <<"Top", "Ann", "Sub", "SubSub", "Rel", "Res">>
SetToSeq(S) == SelectSeq(TypeOrder, LAMBDA t : t \in S)

\* the concatenation of the sequences f[names[1]], f[names[2]], ...
RECURSIVE Chain(_, _)
Chain(f, names) == IF names = <<>> THEN <<>> ELSE f[Head(names)] \o Chain(f, Tail(names))

\* s[a:b] of Python, for 0 <= a and 0 <= b <= len(s)
Slice(s, a, b) == SubSeq(s, a + 1, b)

Max2(a, b) == IF a >= b THEN a ELSE b
Min2(a, b) == IF a <= b THEN a ELSE b

\* the types a query for type_name reads: the type and the children the
\* type system lists for it
QueriedTypes(type_name) == Children(type_name) \cup {type_name}

\* Cas._get_feature_structures
GetFeatureStructures(m, h, type_name) ==
    Chain(m.vw[m.hd[h].cur].indices, SetToSeq(QueriedTypes(type_name)))

\* the window of one bucket that _get_feature_structures_in_range yields
RangeWindow(fs, annotations, begin, end) ==
    LET keys == BucketKeys(fs, annotations)
        idx_begin == Max2(BisectLeft(keys, <<begin, end>>, 0, Len(keys)) - 1, 0)
        idx_end == Min2(BisectRight(keys, <<end, begin>>, 0, Len(keys)), Len(annotations))
    IN Slice(annotations, idx_begin, idx_end)

\* Cas._get_feature_structures_in_range
GetFeatureStructuresInRange(m, h, type_name, begin, end) ==
    LET index == m.vw[m.hd[h].cur].indices
    IN Chain([t \in TypeNames |-> RangeWindow(m.fs, index[t], begin, end)],
             SetToSeq(QueriedTypes(type_name)))

\* Cas.select_covered; the anchor gives c_begin and c_end
SelectCovered(m, h, type_name, anchor) ==
    LET c_begin == anchor[1]
        c_end == anchor[2]
    IN SelectSeq(GetFeatureStructuresInRange(m, h, type_name, c_begin, c_end),
                 LAMBDA o : m.fs[o].begin >= c_begin /\ m.fs[o].end <= c_end)

\* select_covering that compares strictly
SelectCovering_strict(m, h, type_name, anchor) ==
    LET c_begin == anchor[1]
        c_end == anchor[2]
    IN SelectSeq(GetFeatureStructures(m, h, type_name),
                 LAMBDA o : c_begin > m.fs[o].begin /\ c_end < m.fs[o].end)

\* Cas.select_covering
SelectCovering(m, h, type_name, anchor) ==
    LET c_begin == anchor[1]
        c_end == anchor[2]
    IN SelectSeq(GetFeatureStructures(m, h, type_name),
                 LAMBDA o : c_begin >= m.fs[o].begin /\ c_end <= m.fs[o].end)

\* Cas.select and Cas.select_all
Select(m, h, type_name) == GetFeatureStructures(m, h, type_name)
SelectAll(m, h) == Chain(m.vw[m.hd[h].cur].indices, TypeOrder)

\* a FeatureStructure as its type's constructor leaves it
NewFS(t, span) ==
    [type |-> t, xmiID |-> NoRef, sofa |-> None,
     begin |-> IF HasSpan(t) THEN span[1] ELSE NoPos,
     end |-> IF HasSpan(t) THEN span[2] ELSE NoPos,
     gov |-> None, dep |-> None, self_ |-> None, type_ |-> NoneStr]

-----------------------------------------------------------------------------
(* The state after Cas() and the calls a client makes *)

\* what the last call returned or raised: the operation, the exception, the
\* object returned and, for a query, its arguments and what it yielded
Ret(op, exc, val) == [op |-> op, exc |-> exc, val |-> val, arg |-> <<>>, out |-> <<>>]
Yield(op, arg, out) == [op |-> op, exc |-> "none", val |-> NoRef, arg |-> arg, out |-> out]

\* no JSON data, and no deserializer that has run
NoData == [fs |-> <<>>, views |-> <<>>]
NoDes == [cas |-> NoRef, fsd |-> <<>>, frames |-> <<>>, post |-> <<>>,
          max_xmi_id |-> 0, max_sofa_num |-> 0]

Commit(m, r) ==
    /\ stores' = m.st
    /\ viewHeap' = m.vw
    /\ handles' = m.hd
    /\ fsHeap' = m.fs
    /\ ret' = r
    /\ UNCHANGED <<wire, des>>

Init ==
    LET m == CasInit([st |-> <<>>, vw |-> <<>>, hd |-> <<>>, fs |-> <<>>])
    IN /\ stores = m.st
       /\ viewHeap = m.vw
       /\ handles = m.hd
       /\ fsHeap = m.fs
       /\ ret = Ret("Cas", "none", 1)
       /\ wire = NoData
       /\ des = NoDes

Handles == 1..Len(handles)

\* the identifier generator of handle h can still issue an identifier
CanIssue(h) == stores[handles[h].xmiGen].xmiGen <= MaxXmiId

DoCreateView ==
    \E h \in Handles, name \in ViewNames :
        /\ CanIssue(h)
        /\ LET r == CreateView(Mem, h, name)
           IN /\ r.exc = "none" => Len(handles) < MaxHandles
              /\ Commit(r.m, Ret("create_view", r.exc, r.val))

DoGetView ==
    \E h \in Handles, name \in ViewNames :
        /\ LET r == GetView(Mem, h, name)
           IN /\ r.exc = "none" => Len(handles) < MaxHandles
              /\ Commit(r.m, Ret("get_view", r.exc, r.val))

\* add_annotation, through a handle in H, of a structure the client has just
\* built, of a type in T and with a span in S
AddNew(H, T, S) ==
    \E h \in H, t \in T, span \in S :
        /\ CanIssue(h)
        /\ ~HasSpan(t) => span = <<0, 10>>
        /\ LET o == Len(fsHeap) + 1
               m == [Mem EXCEPT !.fs = Append(@, NewFS(t, span))]
           IN Commit(AddAnnotation(m, h, o), Ret("add_annotation", "none", o))

\* add_annotation of a structure that was added before
AddAgain ==
    \E h \in Handles, o \in 1..Len(fsHeap) :
        /\ CanIssue(h)
        /\ Commit(AddAnnotation(Mem, h, o), Ret("add_annotation", "none", o))

\* the sofa members that hold a string
SofaSets ==
    Cardinality({<<v, f>> \in (1..Len(viewHeap)) \X {"sofaString", "mimeType", "sofaURI"} :
                    viewHeap[v][f] # NoneStr})

DoSetSofaString ==
    \E h \in Handles, value \in SofaValues :
        /\ SofaSets < MaxSofaSets
        /\ Commit(SetSofaString(Mem, h, value), Ret("sofa_string", "none", NoRef))

DoSetSofaMime ==
    \E h \in Handles, value \in SofaValues :
        /\ SofaSets < MaxSofaSets
        /\ Commit(SetSofaMime(Mem, h, value), Ret("sofa_mime", "none", NoRef))

DoSetSofaURI ==
    \E h \in Handles, value \in SofaValues :
        /\ SofaSets < MaxSofaSets
        /\ Commit(SetSofaURI(Mem, h, value), Ret("sofa_uri", "none", NoRef))

DoAddNew == AddNew(Handles, {"Top", "Ann"}, {<<0, 10>>})

Next ==
    \/ DoCreateView
    \/ DoGetView
    \/ DoAddNew
    \/ AddAgain
    \/ DoSetSofaString
    \/ DoSetSofaMime
    \/ DoSetSofaURI

Spec == Init /\ [][Next]_vars

-----------------------------------------------------------------------------
(* The index and its queries: one document, annotations of every type and  *)
(* span, and the containment queries over them                             *)

\* the types whose structures have begin and end: the types a containment
\* query is asked for
AnnotationTypes == {"Ann", "Sub"}

IdxCreateView ==
    \E name \in {"v1"} :
        /\ CanIssue(1)
        /\ LET r == CreateView(Mem, 1, name)
           IN /\ r.exc = "none"
              /\ Commit(r.m, Ret("create_view", r.exc, r.val))

IdxAddNew == AddNew(Handles, {"Top", "Ann", "Sub"}, Spans)

DoSelectCovered ==
    \E h \in Handles, t \in AnnotationTypes, anchor \in Spans :
        /\ UNCHANGED <<stores, viewHeap, handles, fsHeap, wire, des>>
        /\ ret' = Yield("select_covered", <<t, anchor>>, SelectCovered(Mem, h, t, anchor))

DoSelectCovering ==
    \E h \in Handles, t \in AnnotationTypes, anchor \in Spans :
        /\ UNCHANGED <<stores, viewHeap, handles, fsHeap, wire, des>>
        /\ ret' = Yield("select_covering", <<t, anchor>>, SelectCovering(Mem, h, t, anchor))

NextIndex ==
    \/ IdxCreateView
    \/ IdxAddNew
    \/ DoSelectCovered
    \/ DoSelectCovering

SpecIndex == Init /\ [][NextIndex]_vars

-----------------------------------------------------------------------------
(* select and select_all over a type hierarchy of three levels: Ann, its   *)
(* child Sub and Sub's child SubSub                                        *)

SelAddNew == AddNew(Handles, {"Top", "Ann", "Sub", "SubSub"}, {<<0, 10>>, <<2, 5>>})

DoSelect ==
    \E h \in Handles, t \in TypeNames :
        /\ UNCHANGED <<stores, viewHeap, handles, fsHeap, wire, des>>
        /\ ret' = Yield("select", <<t>>, Select(Mem, h, t))

DoSelectAll ==
    \E h \in Handles :
        /\ UNCHANGED <<stores, viewHeap, handles, fsHeap, wire, des>>
        /\ ret' = Yield("select_all", <<h>>, SelectAll(Mem, h))

NextSelect ==
    \/ IdxCreateView
    \/ SelAddNew
    \/ AddAgain
    \/ DoSelect
    \/ DoSelectAll

SpecSelect == Init /\ [][NextSelect]_vars

-----------------------------------------------------------------------------
(* The JSON wire format (json.py).                                         *)
(*                                                                         *)
(* json.py is written against a Cas with members that cas.py does not have *)
(* (TYPE_NAME_SOFA, NAME_DEFAULT_SOFA, the FEATURE_BASE_NAME_ constants,   *)
(* create_view with xmiID and sofaNum, add_annotation with keep_id,        *)
(* _find_all_fs, Sofa.sofaArray). Those members are modelled from the      *)
(* specification (sections 4.3 to 4.5) and marked as such below; with the  *)
(* Cas of cas.py as it stands the first use of one of them raises          *)
(* AttributeError or TypeError.                                            *)
(*                                                                         *)
(* A JSON object is a dict. A key is the pair of its reserved prefix ("%", *)
(* "@" or none) and the rest of it: "%ID" is <<"%", "ID">>, "@gov" is      *)
(* <<"@", "gov">> and "begin" is <<"", "begin">>.                          *)

RESERVED_FIELD_PREFIX == "%"
REF_FEATURE_PREFIX == "@"
TYPE_FIELD == <<RESERVED_FIELD_PREFIX, "TYPE">>
ID_FIELD == <<RESERVED_FIELD_PREFIX, "ID">>
Plain(name) == <<"", name>>
RefKey(name) == <<REF_FEATURE_PREFIX, name>>

\* Cas.TYPE_NAME_SOFA and Cas.NAME_DEFAULT_SOFA
TYPE_NAME_SOFA == "Sofa"
NAME_DEFAULT_SOFA == INITIAL_VIEW

\* dict.get(k) with what stands for None, and dict.pop(k)
DictGetOr(d, k, none) == IF DictHas(d, k) THEN DictGet(d, k) ELSE none
DictPop(d, k) == SelectSeq(d, LAMBDA e : e.k # k)

\* Cas._add_view(name, xmiID, sofaNum): an identifier and a sofa number that
\* are given are taken as they are, the others come from the generators
AddViewWith(m, h, name, xmiID, sofaNum) ==
    LET c == m.hd[h]
        x == IF xmiID = NoRef THEN m.st[c.xmiGen].xmiGen ELSE xmiID
        n == IF sofaNum = NoRef THEN m.st[c.numGen].numGen ELSE sofaNum
        v == Len(m.vw) + 1
        m1 == IF xmiID = NoRef THEN [m EXCEPT !.st[c.xmiGen].xmiGen = @ + 1] ELSE m
        m2 == IF sofaNum = NoRef THEN [m1 EXCEPT !.st[c.numGen].numGen = @ + 1] ELSE m1
        m3 == [m2 EXCEPT !.vw = Append(@, NewView(x, n, name))]
        m4 == [m3 EXCEPT !.st[c.views].views = DictPut(@, name, v)]
    IN [m4 EXCEPT !.st[c.sofas].sofas = DictPut(@, name, v)]

\* Cas.create_view(name, xmiID, sofaNum)
CreateViewWith(m, h, name, xmiID, sofaNum) ==
    IF DictHas(m.st[m.hd[h].views].views, name)
    THEN [m |-> m, exc |-> "ValueError", val |-> NoRef]
    ELSE GetView(AddViewWith(m, h, name, xmiID, sofaNum), h, name)

\* Cas.add_annotation(fs, keep_id=True): no identifier is drawn
AddAnnotationKeepId(m, h, o) ==
    LET m1 == IF HasSofa(m.fs[o].type)
              THEN [m EXCEPT !.fs[o].sofa = SofaRef(GetSofa(m, h))]
              ELSE m
    IN [m1 EXCEPT !.vw[m.hd[h].cur].indices[m1.fs[o].type] = SortedAdd(m1.fs, @, o)]

\* AnnotationType(**attributes): the members the attributes name, None for
\* the others. A keyword that is no feature of the type raises TypeError.
ConstructorAccepts(t, attributes) ==
    \A i \in 1..Len(attributes) :
        /\ attributes[i].k[1] = ""
        /\ attributes[i].k[2] \in FeatureNames(t) \cup {"xmiID", "type"}
Construct(t, attributes) ==
    [type |-> t,
     xmiID |-> DictGetOr(attributes, Plain("xmiID"), NoRef),
     sofa |-> DictGetOr(attributes, Plain("sofa"), None),
     begin |-> DictGetOr(attributes, Plain("begin"), NoPos),
     end |-> DictGetOr(attributes, Plain("end"), NoPos),
     gov |-> DictGetOr(attributes, Plain("gov"), None),
     dep |-> DictGetOr(attributes, Plain("dep"), None),
     self_ |-> DictGetOr(attributes, Plain("self_"), None),
     type_ |-> DictGetOr(attributes, Plain("type_"), NoneStr)]

\* lines 120 and 121 of _get_or_create_view, r what get_view returned
SetSofaXmiId(r, fs_id) ==
    IF r.exc # "none" \/ fs_id = NoRef
    THEN r
    ELSE [r EXCEPT !.m.vw[GetSofa(r.m, r.val)].xmiID = fs_id]

\* CasJsonDeserializer._get_or_create_view
GetOrCreateView(m, cas, view_name, fs_id, sofa_num) ==
    IF view_name = NAME_DEFAULT_SOFA
    THEN SetSofaXmiId(GetView(m, cas, NAME_DEFAULT_SOFA), fs_id)
    ELSE CreateViewWith(m, cas, view_name, fs_id, sofa_num)

\* The deserializer at work: d.m the memory, d.cas the Cas being filled,
\* d.fsd the dict feature_structures, d.frames the attributes dict of each
\* _parse_feature_structure call with the variables feature_name and value
\* of its _resolve_references call (the cells the fix_up closures of that call
\* share), d.post the list _post_processors (each closure by its frame).

\* lines 138 to 140 of _parse_sofa: text, mime type and URI of the record,
\* None where the record has none
SetSofaMembers(m, view, json_fs) ==
    SetSofaURI(SetSofaMime(SetSofaString(m, view,
                                         DictGetOr(json_fs, Plain("sofaString"), NoneStr)),
                           view, DictGetOr(json_fs, Plain("mimeType"), NoneStr)),
               view, DictGetOr(json_fs, Plain("sofaURI"), NoneStr))

\* CasJsonDeserializer._parse_sofa once _get_or_create_view has returned r,
\* and line 86
ParseSofaIn(d, json_fs, r, m) ==
    IF r.exc # "none"
    THEN [d EXCEPT !.exc = r.exc]
    ELSE [d EXCEPT !.m = m,
                   !.fsd = DictPut(@, m.vw[GetSofa(m, r.val)].xmiID,
                                   SofaRef(GetSofa(m, r.val)))]

\* line 141 of _parse_sofa: the setter of Cas.sofa_array, given what
\* feature_structures.get finds for the identifier under "@sofaArray" when
\* the Sofa record is parsed, None when it finds nothing
SetSofaArray(m, h, value) == [m EXCEPT !.vw[GetSofa(m, h)].sofaArray = value]

ParseSofaWith(d, json_fs, r) ==
    ParseSofaIn(d, json_fs, r,
                SetSofaArray(SetSofaMembers(r.m, r.val, json_fs), r.val,
                             DictGetOr(d.fsd, DictGetOr(json_fs, RefKey("sofaArray"), NoRef),
                                       None)))

\* CasJsonDeserializer._parse_sofa
ParseSofa(d, fs_id, json_fs) ==
    ParseSofaWith(d, json_fs,
                  GetOrCreateView(d.m, d.cas, DictGet(json_fs, Plain("sofaID")), fs_id,
                                  DictGetOr(json_fs, Plain("sofaNum"), NoRef)))

\* value as a key of feature_structures, whose keys are identifiers: the
\* lookup of a string yields None, as the lookup of 0 does
Key(key, value) == IF key \in {TYPE_FIELD, Plain("type_")} THEN NoRef ELSE value

\* the loop of CasJsonDeserializer._resolve_references over the items of the
\* snapshot, from item i on; st holds the attributes, the two variables the
\* closures read and the number of closures appended
RECURSIVE ResolveLoop(_, _, _, _)
ResolveLoop(items, i, fsd, st) ==
    IF i > Len(items) THEN st
    ELSE LET key == items[i].k
             value == items[i].v
         IN IF key[1] = REF_FEATURE_PREFIX
            THEN LET popped == DictPop(st.attributes, key)
                     feature_name == Plain(key[2])
                     target_fs == DictGetOr(fsd, value, None)
                 IN ResolveLoop(items, i + 1, fsd,
                        IF target_fs # None
                        THEN [attributes |-> DictPut(popped, feature_name, target_fs),
                              feature_name |-> feature_name, value |-> value,
                              deferred |-> st.deferred]
                        ELSE [attributes |-> popped,
                              feature_name |-> feature_name, value |-> value,
                              deferred |-> st.deferred + 1])
            ELSE ResolveLoop(items, i + 1, fsd, [st EXCEPT !.value = Key(key, value)])

\* CasJsonDeserializer._resolve_references
ResolveReferences(attributes, fsd) ==
    ResolveLoop(attributes, 1, fsd,
                [attributes |-> attributes, feature_name |-> None, value |-> None,
                 deferred |-> 0])

\* CasJsonDeserializer._strip_reserved_json_keys
StripReservedJsonKeys(attributes) ==
    SelectSeq(attributes, LAMBDA e : e.k[1] # RESERVED_FIELD_PREFIX)

\* the remapping of a feature that uses a reserved Python name
Remap(attributes, from, to) ==
    IF DictHas(attributes, Plain(from))
    THEN DictPut(DictPop(attributes, Plain(from)), Plain(to), DictGet(attributes, Plain(from)))
    ELSE attributes

\* CasJsonDeserializer._parse_feature_structure, and line 86
ParseFeatureStructure(d, fs_id, json_fs) ==
    LET t == DictGet(json_fs, TYPE_FIELD)
        a1 == DictPut(json_fs, Plain("xmiID"), fs_id)
        a2 == Remap(Remap(a1, "self", "self_"), "type", "type_")
        res == ResolveReferences(a2, d.fsd)
        attributes == StripReservedJsonKeys(res.attributes)
        frame == Len(d.frames) + 1
        o == Len(d.m.fs) + 1
        fs == Construct(t, attributes)
    IN IF ~ConstructorAccepts(t, attributes)
       THEN [d EXCEPT !.exc = "TypeError"]
       ELSE [d EXCEPT !.m.fs = Append(@, fs),
                      !.fsd = DictPut(@, fs.xmiID, FsRef(o)),
                      !.max_xmi_id = Max2(DictGet(attributes, Plain("xmiID")), @),
                      !.frames = Append(@, [attributes |-> attributes,
                                            feature_name |-> res.feature_name,
                                            value |-> res.value]),
                      !.post = @ \o [j \in 1..res.deferred |-> frame]]

\* the loop of deserialize over the records (lines 78 to 86)
RECURSIVE ParseRecords(_, _, _)
ParseRecords(d, records, i) ==
    IF i > Len(records) \/ d.exc # "none" THEN d
    ELSE LET json_fs == records[i]
             fs_id == DictGetOr(json_fs, ID_FIELD, NoRef)
         IN ParseRecords(IF DictGetOr(json_fs, TYPE_FIELD, "") = TYPE_NAME_SOFA
                         THEN ParseSofa(d, fs_id, json_fs)
                         ELSE ParseFeatureStructure(d, fs_id, json_fs),
                         records, i + 1)

\* fix_up, the closure of _resolve_references: it reads feature_name and value
\* when it runs and assigns into the attributes dict of its call
FixUp(d, frame) ==
    LET f == d.frames[frame]
    IN [d EXCEPT !.frames[frame].attributes =
                     DictPut(@, f.feature_name, DictGetOr(d.fsd, f.value, None))]

\* the loop over _post_processors (lines 98 and 99)
RECURSIVE RunPostProcessors(_, _)
RunPostProcessors(d, i) ==
    IF i > Len(d.post) THEN d ELSE RunPostProcessors(FixUp(d, d.post[i]), i + 1)

\* lines 101 and 102: the Cas gets two new generators
Reseed(d) ==
    LET g == Len(d.m.st) + 1
    IN [d EXCEPT !.m.st = Append(@, [views |-> <<>>, sofas |-> <<>>,
                                     xmiGen |-> d.max_xmi_id + 1,
                                     numGen |-> d.max_sofa_num + 1]),
                 !.m.hd[d.cas].xmiGen = g,
                 !.m.hd[d.cas].numGen = g]

\* the loop of _parse_view with add_annotation(fs) in place of
\* add_annotation(fs, keep_id=True)
RECURSIVE AddMembers_freshId(_, _, _, _)
AddMembers_freshId(d, view, index, i) ==
    IF i > Len(index) \/ d.exc # "none" THEN d
    ELSE IF ~DictHas(d.fsd, index[i])
         THEN [d EXCEPT !.exc = "KeyError"]
         ELSE AddMembers_freshId([d EXCEPT !.m = AddAnnotation(@, view, DictGet(d.fsd, index[i])[2])],
                                 view, index, i + 1)

\* the loop of _parse_view over the members of the view's index
RECURSIVE AddMembers(_, _, _, _)
AddMembers(d, view, index, i) ==
    IF i > Len(index) \/ d.exc # "none" THEN d
    ELSE IF ~DictHas(d.fsd, index[i])
         THEN [d EXCEPT !.exc = "KeyError"]
         ELSE AddMembers([d EXCEPT !.m = AddAnnotationKeepId(@, view, DictGet(d.fsd, index[i])[2])],
                         view, index, i + 1)

\* CasJsonDeserializer._parse_view once _get_or_create_view has returned r
ParseViewWith(d, json_view, r) ==
    IF r.exc # "none"
    THEN [d EXCEPT !.exc = r.exc]
    ELSE AddMembers([d EXCEPT !.m = r.m], r.val, json_view.index, 1)

\* CasJsonDeserializer._parse_view
ParseView(d, view_name, json_view) ==
    ParseViewWith(d, json_view, GetOrCreateView(d.m, d.cas, view_name, NoRef, NoRef))

\* the loop of deserialize over the views section (lines 107 to 109)
RECURSIVE ParseViews(_, _, _)
ParseViews(d, json_views, i) ==
    IF i > Len(json_views) \/ d.exc # "none" THEN d
    ELSE ParseViews(ParseView(d, json_views[i].k, json_views[i].v), json_views, i + 1)

\* lines 67 to 75 of deserialize: the deserializer and the Cas it fills
NewDeserializer(m0) ==
    [m |-> m0, cas |-> Len(m0.hd), fsd |-> <<>>, max_xmi_id |-> 0,
     max_sofa_num |-> 0, frames |-> <<>>, post |-> <<>>, exc |-> "none"]

\* lines 98 to 102 of deserialize, d1 the deserializer after the records
AfterRecords(d1) == IF d1.exc = "none" THEN Reseed(RunPostProcessors(d1, 1)) ELSE d1

\* CasJsonDeserializer.deserialize of the parsed source data, with the
\* feature structures as a list; m is the memory it starts in
Deserialize(m, data) ==
    ParseViews(AfterRecords(ParseRecords(NewDeserializer(CasInit(m)), data.fs, 1)),
               data.views, 1)

-----------------------------------------------------------------------------
(* Loading a document from JSON data: the data, one call of deserialize,   *)
(* and the first call a client makes on the Cas it returns                 *)

\* records in one source
MaxRecs == 2

\* the views and sofa numbers a source names
WireViewNames == {NAME_DEFAULT_SOFA, "v1"}
SofaNums == {1, 2}

\* the ascending sequence of a set of integers
RECURSIVE SortedSeq(_)
SortedSeq(S) ==
    IF S = {} THEN <<>>
    ELSE LET x == CHOOSE y \in S : \A z \in S : y <= z
         IN <<x>> \o SortedSeq(S \ {x})

\* What a record says: a Sofa record names its view and sofa number, a Rel
\* record refers to the records with the identifiers gov and dep (0: the
\* feature is absent). n is the number of records of the source.
RecShapes(n) ==
    {[kind |-> "Sofa", name |-> nm, num |-> k, gov |-> 0, dep |-> 0] :
        nm \in WireViewNames, k \in SofaNums}
    \cup {[kind |-> "Rel", name |-> "", num |-> 0, gov |-> g, dep |-> e] : g, e \in 0..n}

\* the JSON object of a record
JsonRecord(shape, id) ==
    IF shape.kind = "Sofa"
    THEN <<[k |-> ID_FIELD, v |-> id], [k |-> TYPE_FIELD, v |-> TYPE_NAME_SOFA],
           [k |-> Plain("sofaNum"), v |-> shape.num], [k |-> Plain("sofaID"), v |-> shape.name]>>
    ELSE <<[k |-> ID_FIELD, v |-> id], [k |-> TYPE_FIELD, v |-> "Rel"]>>
         \o (IF shape.gov # 0 THEN <<[k |-> RefKey("gov"), v |-> shape.gov]>> ELSE <<>>)
         \o (IF shape.dep # 0 THEN <<[k |-> RefKey("dep"), v |-> shape.dep]>> ELSE <<>>)

\* A source: up to MaxRecs records with the identifiers 1..n in ascending
\* or in descending order, no two Sofa records for one view, no record
\* referring to itself; a views section naming some of the views, each with
\* an index that is empty or lists every Rel record.
WireId(n, asc, i) == IF asc THEN i ELSE n + 1 - i

SourceOf(n, asc, shapes, names, full) ==
    LET id(i) == WireId(n, asc, i)
        rels == SortedSeq({id(i) : i \in {j \in 1..n : shapes[j].kind = "Rel"}})
        sofaId(nm) ==
            IF \E i \in 1..n : shapes[i].kind = "Sofa" /\ shapes[i].name = nm
            THEN id(CHOOSE i \in 1..n : shapes[i].kind = "Sofa" /\ shapes[i].name = nm)
            ELSE NoRef
    IN [fs |-> [i \in 1..n |-> JsonRecord(shapes[i], id(i))],
        views |-> [i \in 1..Len(names) |->
                     [k |-> names[i],
                      v |-> [sofa |-> sofaId(names[i]),
                             index |-> IF full[i] THEN rels ELSE <<>>]]]]

WellFormed(n, asc, sh) ==
    /\ \A i \in 1..n : sh[i].gov # WireId(n, asc, i) /\ sh[i].dep # WireId(n, asc, i)
    /\ \A i, j \in 1..n :
          (i # j /\ sh[i].kind = "Sofa" /\ sh[j].kind = "Sofa") => sh[i].name # sh[j].name

ViewsSections == {<<>>, <<NAME_DEFAULT_SOFA>>, <<"v1">>, <<NAME_DEFAULT_SOFA, "v1">>}

\* wire is one of the sources
IsSource ==
    \E n \in 0..MaxRecs, asc \in BOOLEAN :
        \E shapes \in [1..n -> RecShapes(n)], names \in ViewsSections :
            \E full \in [1..Len(names) -> BOOLEAN] :
                /\ WellFormed(n, asc, shapes)
                /\ wire = SourceOf(n, asc, shapes, names, full)

InitJson ==
    /\ stores = <<>>
    /\ viewHeap = <<>>
    /\ handles = <<>>
    /\ fsHeap = <<>>
    /\ ret = Ret("source", "none", NoRef)
    /\ IsSource
    /\ des = NoDes

\* load_cas_from_json of the data in wire, once the call op has left it there
Load(op) ==
    /\ ret.op = op
    /\ LET d == Deserialize(Mem, wire)
       IN /\ stores' = d.m.st
          /\ viewHeap' = d.m.vw
          /\ handles' = d.m.hd
          /\ fsHeap' = d.m.fs
          /\ ret' = Ret("deserialize", d.exc, IF d.exc = "none" THEN d.cas ELSE NoRef)
          /\ des' = [cas |-> d.cas, fsd |-> d.fsd, frames |-> d.frames, post |-> d.post,
                     max_xmi_id |-> d.max_xmi_id, max_sofa_num |-> d.max_sofa_num]
          /\ UNCHANGED wire

DoDeserialize == Load("source")

\* the first call on the Cas that deserialize returned
Loaded == ret.op = "deserialize" /\ ret.exc = "none"

LoadedAddNew == Loaded /\ AddNew({ret.val}, {"Top"}, {<<0, 10>>})

LoadedCreateView ==
    /\ Loaded
    /\ \E name \in {"v1", "v2"} :
          LET r == CreateView(Mem, ret.val, name)
          IN Commit(r.m, Ret("create_view", r.exc, r.val))

NextJson == DoDeserialize \/ LoadedAddNew \/ LoadedCreateView

SpecJson == InitJson /\ [][NextJson]_vars

-----------------------------------------------------------------------------
(* The JSON serializer (json.py)                                           *)

VIEW_SOFA_FIELD == <<RESERVED_FIELD_PREFIX, "SOFA">>
VIEW_INDEX_FIELD == <<RESERVED_FIELD_PREFIX, "INDEX">>
COMMON_FIELD_NAMES == {"xmiID", "type"}

\* sorted(...) of a list of integers
RECURSIVE Sorted(_)
Sorted(s) ==
    IF s = <<>> THEN <<>>
    ELSE LET rest == Sorted(Tail(s))
             n == Cardinality({i \in 1..Len(rest) : rest[i] <= Head(s)})
         IN InsertAt(rest, n, Head(s))

\* the features of the Sofa type, in declaration order, all of them primitive
\* but sofaArray
SofaFeatures == <<"sofaNum", "sofaID", "mimeType", "sofaArray", "sofaString", "sofaURI">>

\* getattr(fs, feature) is None: what stands for None in a member that holds
\* a string, a position or a reference
IsNone(name, value) ==
    CASE name \in {"sofaString", "mimeType", "sofaURI", "type_"} -> value = NoneStr
      [] name \in {"begin", "end"} -> value = NoPos
      [] name \in {"sofaNum", "sofaID"} -> FALSE
      [] OTHER -> value = None
\* a sofa as the serializer sees it: its members
SofaObject(sofa) == [f \in {SofaFeatures[i] : i \in 1..Len(SofaFeatures)} |-> sofa[f]]

\* value.xmiID of the feature structure or sofa a member refers to
XmiIdOf(m, ref) == IF ref[1] = "sofa" THEN m.vw[ref[2]].xmiID ELSE m.fs[ref[2]].xmiID

\* the loop of _serialize_feature_structure over t.all_features, from feature
\* i on: None is skipped, a primitive goes under its name, a reference under
\* "@" and its name as the identifier of its target
RECURSIVE SerializeFeatures(_, _, _, _, _, _)
SerializeFeatures(m, features, fs, primitives, i, json_fs) ==
    IF i > Len(features) THEN json_fs
    ELSE LET name == features[i]
             feature_name == IF HasReservedName(name) THEN WithoutLast(name) ELSE name
             value == fs[name]
         IN SerializeFeatures(m, features, fs, primitives, i + 1,
                IF name \in COMMON_FIELD_NAMES \/ IsNone(name, value) THEN json_fs
                ELSE IF name \in primitives THEN DictPut(json_fs, Plain(feature_name), value)
                ELSE DictPut(json_fs, RefKey(feature_name), XmiIdOf(m, value)))

\* CasJsonSerializer._serialize_feature_structure of a sofa and of a feature
\* structure
SerializeSofa(m, v) ==
    SerializeFeatures(m, SofaFeatures, SofaObject(m.vw[v]),
        {f \in DOMAIN SofaObject(m.vw[v]) : f # "sofaArray"}, 1,
        <<[k |-> ID_FIELD, v |-> m.vw[v].xmiID], [k |-> TYPE_FIELD, v |-> TYPE_NAME_SOFA]>>)

SerializeFeatureStructure(m, o) ==
    SerializeFeatures(m, AllFeatures(m.fs[o].type), m.fs[o],
        {f \in FeatureNames(m.fs[o].type) : IsPrimitive(f)}, 1,
        <<[k |-> ID_FIELD, v |-> m.fs[o].xmiID], [k |-> TYPE_FIELD, v |-> m.fs[o].type]>>)

\* View.get_all_annotations, and CasJsonSerializer._serialize_view
GetAllAnnotations(m, v) == Chain(m.vw[v].indices, TypeOrder)
SerializeView(m, v) ==
    LET all == GetAllAnnotations(m, v)
    IN [sofa |-> m.vw[v].xmiID,
        index |-> Sorted([i \in 1..Len(all) |-> m.fs[all[i]].xmiID])]

\* Cas.views of handle h
Views(m, h) == DictValues(m.st[m.hd[h].views].views)

\* Cas._find_all_fs: the feature structures in the indices of the views and
\* those they refer to, sofas apart
RECURSIVE Reach(_, _)
Reach(m, S) ==
    LET refs == {m.fs[o][f] : o \in S, f \in {"gov", "dep", "self_"}}
        N == S \cup {r[2] : r \in {x \in refs : x # None /\ x[1] = "fs"}}
    IN IF N = S THEN S ELSE Reach(m, N)
FindAllFs(m, h) ==
    LET views == Views(m, h)
    IN Reach(m, UNION {{GetAllAnnotations(m, views[i])[j] :
                           j \in 1..Len(GetAllAnnotations(m, views[i]))} :
                       i \in 1..Len(views)})

\* the feature structures in the order of their construction
SortedByXmiId_heapOrder(m, S) == SortedSeq(S)

\* sorted(cas._find_all_fs(), key=xmiID)
RECURSIVE SortedByXmiId(_, _)
SortedByXmiId(m, S) ==
    IF S = {} THEN <<>>
    ELSE LET o == CHOOSE x \in S : \A y \in S : m.fs[x].xmiID <= m.fs[y].xmiID
         IN <<o>> \o SortedByXmiId(m, S \ {o})

\* _serialize_feature_structure of what a reference refers to
SerializeRef(m, ref) ==
    IF ref[1] = "sofa" THEN SerializeSofa(m, ref[2]) ELSE SerializeFeatureStructure(m, ref[2])

\* the loop of serialize with the Sofa record before the record of the array
RECURSIVE SofaRecordsFrom_sofaFirst(_, _, _)
SofaRecordsFrom_sofaFirst(m, views, i) ==
    IF i > Len(views) THEN <<>>
    ELSE <<SerializeSofa(m, views[i])>>
         \o (IF m.vw[views[i]].sofaArray # None
             THEN <<SerializeRef(m, m.vw[views[i]].sofaArray)>>
             ELSE <<>>)
         \o SofaRecordsFrom_sofaFirst(m, views, i + 1)

\* the loop of serialize over cas.views (lines 208 to 214), from view i on:
\* the record of the sofa's array, if the sofa has one, then the Sofa record
RECURSIVE SofaRecordsFrom(_, _, _)
SofaRecordsFrom(m, views, i) ==
    IF i > Len(views) THEN <<>>
    ELSE (IF m.vw[views[i]].sofaArray # None
          THEN <<SerializeRef(m, m.vw[views[i]].sofaArray)>>
          ELSE <<>>)
         \o <<SerializeSofa(m, views[i])>>
         \o SofaRecordsFrom(m, views, i + 1)

\* CasJsonSerializer.serialize: the data it dumps to the sink
Serialize(m, h) ==
    LET views == Views(m, h)
        all == SortedByXmiId(m, FindAllFs(m, h))
    IN [views |-> [i \in 1..Len(views) |->
                      [k |-> m.vw[views[i]].sofaID, v |-> SerializeView(m, views[i])]],
        fs |-> SofaRecordsFrom(m, views, 1)
               \o [i \in 1..Len(all) |-> SerializeFeatureStructure(m, all[i])]]

-----------------------------------------------------------------------------
(* The round trip: a client builds a document, serializes it to a sink and *)
(* loads what the sink holds                                               *)

\* feature structures a client builds
MaxObjects == 2

Building == ret.op \notin {"serialize", "deserialize"}

RtCreateView == Building /\ IdxCreateView

RtSetSofaString == Building /\ DoSetSofaString

\* the client constructs a feature structure: an annotation, or a relation
\* between feature structures it has constructed
RtNewFS ==
    /\ Building
    /\ Len(fsHeap) < MaxObjects
    /\ \E t \in {"Ann", "Rel"}, g, e \in {None} \cup {FsRef(o) : o \in 1..Len(fsHeap)} :
          /\ t = "Ann" => g = None /\ e = None
          /\ Commit([Mem EXCEPT !.fs = Append(@, [NewFS(t, <<0, 10>>) EXCEPT
                                                      !.gov = g, !.dep = e])],
                    Ret("new", "none", Len(fsHeap) + 1))

\* add_annotation of a feature structure that is in no index yet
RtAdd ==
    /\ Building
    /\ \E h \in Handles, o \in 1..Len(fsHeap) :
          /\ fsHeap[o].xmiID = NoRef
          /\ CanIssue(h)
          /\ Commit(AddAnnotation(Mem, h, o), Ret("add_annotation", "none", o))

\* serialize of the document, once every feature structure has been added
DoSerialize ==
    /\ Building
    /\ \A o \in 1..Len(fsHeap) : fsHeap[o].xmiID # NoRef
    /\ wire' = Serialize(Mem, 1)
    /\ ret' = Ret("serialize", "none", NoRef)
    /\ UNCHANGED <<stores, viewHeap, handles, fsHeap, des>>

RtDeserialize == Load("serialize")

NextRT ==
    \/ RtCreateView
    \/ RtSetSofaString
    \/ RtNewFS
    \/ RtAdd
    \/ DoSerialize
    \/ RtDeserialize

SpecRT == Init /\ [][NextRT]_vars

-----------------------------------------------------------------------------
(* The round trip of a type with the features self and type, which the     *)
(* type system holds under the names self_ and type_                       *)

\* the client constructs a feature structure with a string in type_, or
\* none, and a reference in self_ to a feature structure it has, or none
ResNewFS ==
    /\ Building
    /\ Len(fsHeap) < MaxObjects
    /\ \E t \in {NoneStr, "x"}, r \in {None} \cup {FsRef(o) : o \in 1..Len(fsHeap)} :
          Commit([Mem EXCEPT !.fs = Append(@, [NewFS("Res", <<0, 10>>) EXCEPT
                                                  !.self_ = r, !.type_ = t])],
                 Ret("new", "none", Len(fsHeap) + 1))

NextRes ==
    \/ ResNewFS
    \/ RtSetSofaString
    \/ RtAdd
    \/ DoSerialize
    \/ RtDeserialize

SpecRes == Init /\ [][NextRes]_vars

-----------------------------------------------------------------------------
(* Serializing a loaded document: its sources list any of their records in *)
(* the index of a view, so a record can be referred to and be in no index  *)

SerShapes(n) ==
    {[kind |-> "Sofa", name |-> "v1", num |-> 2, gov |-> 0, dep |-> 0]}
    \cup {[kind |-> "Rel", name |-> "", num |-> 0, gov |-> g, dep |-> 0] : g \in 0..n}

SerSource(n, asc, shapes, names, index) ==
    [fs |-> [i \in 1..n |-> JsonRecord(shapes[i], WireId(n, asc, i))],
     views |-> [i \in 1..Len(names) |->
                  [k |-> names[i], v |-> [sofa |-> NoRef, index |-> SortedSeq(index[i])]]]]

IsSerSource ==
    \E n \in 0..MaxRecs, asc \in BOOLEAN :
        \E shapes \in [1..n -> SerShapes(n)], names \in {<<NAME_DEFAULT_SOFA>>, <<"v1", NAME_DEFAULT_SOFA>>} :
            \E index \in [1..Len(names) ->
                            SUBSET {WireId(n, asc, i) : i \in {j \in 1..n : shapes[j].kind = "Rel"}}] :
                /\ WellFormed(n, asc, shapes)
                /\ wire = SerSource(n, asc, shapes, names, index)

InitSer ==
    /\ stores = <<>>
    /\ viewHeap = <<>>
    /\ handles = <<>>
    /\ fsHeap = <<>>
    /\ ret = Ret("source", "none", NoRef)
    /\ IsSerSource
    /\ des = NoDes

\* serialize of the document that deserialize returned
LoadedSerialize ==
    /\ Loaded
    /\ wire' = Serialize(Mem, ret.val)
    /\ ret' = Ret("serialize", "none", ret.val)
    /\ UNCHANGED <<stores, viewHeap, handles, fsHeap, des>>

NextSer == DoDeserialize \/ LoadedSerialize

SpecSer == InitSer /\ [][NextSer]_vars

-----------------------------------------------------------------------------
(* The array of a sofa: sources whose Sofa records refer to an array, in   *)
(* either order, and the round trip of the documents they load             *)

\* What a record says: a Sofa record names its view and sofa number and
\* gives the identifier gov for its array (0: it has no array, n + 1: no
\* record has the identifier); an array record is a feature structure, its
\* elements left out
ArrShapes(n) ==
    {[kind |-> "Sofa", name |-> nm, num |-> k, gov |-> g, dep |-> 0] :
        nm \in WireViewNames, k \in SofaNums, g \in 0..(n + 1)}
    \cup {[kind |-> "Arr", name |-> "", num |-> 0, gov |-> 0, dep |-> 0]}

ArrRecord(shape, id) ==
    IF shape.kind = "Sofa"
    THEN JsonRecord(shape, id)
         \o (IF shape.gov # 0 THEN <<[k |-> RefKey("sofaArray"), v |-> shape.gov]>> ELSE <<>>)
    ELSE <<[k |-> ID_FIELD, v |-> id], [k |-> TYPE_FIELD, v |-> "Top"]>>

\* a source of up to MaxRecs such records and an empty views section; the
\* array of a sofa is no Sofa record
IsArrSource ==
    \E n \in 1..MaxRecs, asc \in BOOLEAN :
        \E shapes \in [1..n -> ArrShapes(n)] :
            /\ WellFormed(n, asc, shapes)
            /\ \A i, j \in 1..n :
                  (shapes[i].kind = "Sofa" /\ shapes[i].gov = WireId(n, asc, j))
                      => shapes[j].kind = "Arr"
            /\ wire = [fs |-> [i \in 1..n |-> ArrRecord(shapes[i], WireId(n, asc, i))],
                       views |-> <<>>]

InitArr ==
    /\ stores = <<>>
    /\ viewHeap = <<>>
    /\ handles = <<>>
    /\ fsHeap = <<>>
    /\ ret = Ret("source", "none", NoRef)
    /\ IsArrSource
    /\ des = NoDes

\* serialize of the document that the source loaded, the first Cas there is
ArrSerialize == des.cas = 1 /\ LoadedSerialize

NextArr == DoDeserialize \/ ArrSerialize \/ RtDeserialize

SpecArr == InitArr /\ [][NextArr]_vars

-----------------------------------------------------------------------------
(* Properties of the document (Spec)                                       *)

\* the next identifier and the next sofa number the generators of handle h
\* issue
NextXmiId(h) == stores[handles[h].xmiGen].xmiGen
NextSofaNum(h) == stores[handles[h].numGen].numGen

\* the document is what the first Cas allocated
DocViews == stores[handles[1].views].views
DocSofas == stores[handles[1].sofas].sofas

\* the sofas of the document and the feature structures that were added
Entities ==
    {<<"sofa", DocSofas[i].v>> : i \in 1..Len(DocSofas)} \cup {<<"fs", o>> : o \in 1..Len(fsHeap)}
IdOf(e) == IF e[1] = "sofa" THEN viewHeap[e[2]].xmiID ELSE fsHeap[e[2]].xmiID

\* C2: the identifiers of all sofas and of all distinct feature structures
\* added through any handle of the document are positive and pairwise
\* distinct across the whole document.
C2_IdentifiersUnique ==
    /\ \A e \in Entities : IdOf(e) >= 1
    /\ \A e1, e2 \in Entities : e1 # e2 => IdOf(e1) # IdOf(e2)

\* two views, and annotations added to each of them through different handles
C2_Witness ==
    /\ Len(DocSofas) = 2
    /\ Len(handles) = 2
    /\ \E o1, o2 \in 1..Len(fsHeap) :
          /\ fsHeap[o1].sofa # None
          /\ fsHeap[o2].sofa # None
          /\ fsHeap[o1].sofa # fsHeap[o2].sofa

\* what handle h observes of the document: the view mapping with every
\* view's sofa and index, the sofa mapping, and the next values of the two
\* allocators
Observed(h) ==
    LET views == stores[handles[h].views].views
        sofas == stores[handles[h].sofas].sofas
    IN [views |-> [i \in 1..Len(views) |-> <<views[i].k, views[i].v, viewHeap[views[i].v]>>],
        sofas |-> [i \in 1..Len(sofas) |-> <<sofas[i].k, sofas[i].v>>],
        nextXmi |-> stores[handles[h].xmiGen].xmiGen,
        nextNum |-> stores[handles[h].numGen].numGen]

C9_FailedCallsChangeNothing ==
    \A h \in Handles, name \in ViewNames :
        IF DictHas(stores[handles[h].views].views, name)
        THEN /\ CreateView(Mem, h, name).exc = "ValueError"
             /\ CreateView(Mem, h, name).m = Mem
        ELSE /\ GetView(Mem, h, name).exc = "KeyError"
             /\ GetView(Mem, h, name).m = Mem

\* a create_view that failed in a document with two views and an annotation
C9_Witness ==
    /\ ret.op = "create_view"
    /\ ret.exc = "ValueError"
    /\ Len(DocViews) = 2
    /\ Len(fsHeap) >= 1

\* C12: in every state reachable from construction the document has at
\* least one view and the view _InitialView, view names are unique, each
\* view's sofa is named as the view is registered, and the current view of
\* every handle is an entry of the view mapping.
C12_DocumentInvariant ==
    \A h \in Handles :
        LET views == stores[handles[h].views].views
        IN /\ Len(views) >= 1
           /\ DictHas(views, INITIAL_VIEW)
           /\ \A i, k \in 1..Len(views) : views[i].k = views[k].k => i = k
           /\ \A i \in 1..Len(views) : viewHeap[views[i].v].sofaID = views[i].k
           /\ \E i \in 1..Len(views) : views[i].v = handles[h].cur

\* a document with two views, a handle on the second one obtained by
\* get_view, and an annotation added through it
C12_Witness ==
    /\ Len(DocViews) = 2
    /\ Len(handles) = 2
    /\ handles[2].cur = DocViews[2].v
    /\ handles[1].cur = DocViews[1].v
    /\ ret.op = "add_annotation"
    /\ fsHeap[ret.val].sofa = SofaRef(handles[2].cur)

\* C14: create_view with a new name draws one identifier and one sofa
\* number from the generators the handle shares with the document, registers
\* one view under the name whose sofa carries the two values drawn, and
\* returns a handle on the same document whose current view is the new view;
\* the handle it was called on keeps its current view.
C14_CreateViewEffect ==
    \A h \in Handles, name \in ViewNames :
        LET views == stores[handles[h].views].views
            r == CreateView(Mem, h, name)
            after == r.m.st[handles[h].views].views
            new == r.m.vw[DictGet(after, name)]
        IN ~DictHas(views, name) =>
              /\ r.exc = "none"
              /\ r.m.st[handles[h].xmiGen].xmiGen = NextXmiId(h) + 1
              /\ r.m.st[handles[h].numGen].numGen = NextSofaNum(h) + 1
              /\ after = Append(views, [k |-> name, v |-> Len(viewHeap) + 1])
              /\ new.xmiID = NextXmiId(h)
              /\ new.sofaNum = NextSofaNum(h)
              /\ new.sofaID = name
              /\ r.m.hd[r.val].cur = DictGet(after, name)
              /\ r.m.hd[r.val].views = handles[h].views
              /\ r.m.hd[r.val].xmiGen = handles[h].xmiGen
              /\ r.m.hd[r.val].numGen = handles[h].numGen
              /\ r.m.hd[h] = handles[h]
              /\ \A v \in 1..Len(viewHeap) : r.m.vw[v] = viewHeap[v]

\* create_view has returned a handle on a new view whose sofa has the
\* identifier 3 and the sofa number 2: an annotation was added before
C14_Witness ==
    /\ ret.op = "create_view"
    /\ ret.exc = "none"
    /\ viewHeap[handles[ret.val].cur].xmiID = 3
    /\ viewHeap[handles[ret.val].cur].sofaNum = 2
    /\ handles[ret.val].cur # handles[1].cur

\* the sequence s without its element at position i
Without(s, i) == SubSeq(s, 1, i - 1) \o SubSeq(s, i + 1, Len(s))

\* what add_annotation of the feature structure o of the memory m through h
\* leaves in m2
AddAnnotationEffect(m, h, o, m2) ==
    LET cur == m.hd[h].cur
        t == m.fs[o].type
    IN /\ m2.fs[o].xmiID = m.st[m.hd[h].xmiGen].xmiGen
       /\ \A e \in Entities : IdOf(e) < m2.fs[o].xmiID
       /\ \A p \in 1..Len(m.fs) : p # o => m.fs[p].xmiID < m2.fs[o].xmiID
       /\ m2.fs[o].sofa = IF HasSofa(t) THEN SofaRef(cur) ELSE m.fs[o].sofa
       /\ m2.fs[o] = [m.fs[o] EXCEPT !.xmiID = m2.fs[o].xmiID, !.sofa = m2.fs[o].sofa]
       /\ \A p \in 1..Len(m.fs) : p # o => m2.fs[p] = m.fs[p]
       /\ \E i \in 1..Len(m2.vw[cur].indices[t]) :
             /\ m2.vw[cur].indices[t][i] = o
             /\ Without(m2.vw[cur].indices[t], i) = m.vw[cur].indices[t]
       /\ \A v \in 1..Len(m.vw), n \in TypeNames :
             (v # cur \/ n # t) => m2.vw[v].indices[n] = m.vw[v].indices[n]

\* C15: add_annotation gives the feature structure a fresh identifier that
\* is greater than every identifier issued before, whatever identifier it
\* carried, sets its sofa to the sofa of the current view when it has a sofa
\* field, and inserts it into the bucket of its own type of the current view;
\* every other bucket and the index of every other view stay as they are.
\* This holds for a structure that was added before and for a new one.
C15_AddAnnotationEffect ==
    \A h \in Handles :
        /\ \A o \in 1..Len(fsHeap) :
              AddAnnotationEffect(Mem, h, o, AddAnnotation(Mem, h, o))
        /\ \A t \in {"Top", "Ann"} :
              AddAnnotationEffect([Mem EXCEPT !.fs = Append(@, NewFS(t, <<2, 5>>))],
                  h, Len(fsHeap) + 1,
                  AddAnnotation([Mem EXCEPT !.fs = Append(@, NewFS(t, <<2, 5>>))],
                                h, Len(fsHeap) + 1))

\* an annotation that is in the index of one view has just been added again
\* through a handle on another view
C15_Witness ==
    /\ ret.op = "add_annotation"
    /\ Len(handles) = 2
    /\ fsHeap[ret.val].type = "Ann"
    /\ \E h1, h2 \in Handles :
          /\ handles[h1].cur # handles[h2].cur
          /\ viewHeap[handles[h1].cur].indices["Ann"] = <<ret.val>>
          /\ viewHeap[handles[h2].cur].indices["Ann"] = <<ret.val>>
          /\ fsHeap[ret.val].sofa = SofaRef(handles[h2].cur)

\* C21: get_view leaves the document as it is: the generators, the view
\* and sofa mappings with the order of their entries, every view, every
\* feature structure and every handle, the caller's included, are what they
\* were; the initial view of the Cas that _copy builds draws the identifier 1
\* and the sofa number 1 from generators of its own. create_view with a new
\* name advances each shared generator by the one value that _add_view
\* draws and appends the one entry of the new view.
C21_GetViewNoEffect ==
    \A h \in Handles, name \in ViewNames :
        /\ LET r == GetView(Mem, h, name)
           IN /\ \A s \in 1..Len(stores) : r.m.st[s] = stores[s]
              /\ \A k \in 1..Len(handles) : r.m.hd[k] = handles[k]
              /\ \A v \in 1..Len(viewHeap) : r.m.vw[v] = viewHeap[v]
              /\ r.m.fs = fsHeap
              /\ r.exc = "none" =>
                    /\ Len(r.m.st) = Len(stores) + 1
                    /\ Len(r.m.vw) = Len(viewHeap) + 1
                    /\ r.m.vw[Len(r.m.vw)].xmiID = 1
                    /\ r.m.vw[Len(r.m.vw)].sofaNum = 1
                    /\ r.m.st[Len(r.m.st)].views
                           = <<[k |-> INITIAL_VIEW, v |-> Len(r.m.vw)]>>
                    /\ r.m.hd[r.val].views = handles[h].views
                    /\ r.m.hd[r.val].sofas = handles[h].sofas
                    /\ r.m.hd[r.val].xmiGen = handles[h].xmiGen
                    /\ r.m.hd[r.val].numGen = handles[h].numGen
        /\ LET views == stores[handles[h].views].views
               sofas == stores[handles[h].sofas].sofas
               r == CreateView(Mem, h, name)
           IN ~DictHas(views, name) =>
                 /\ r.m.st[handles[h].xmiGen].xmiGen = NextXmiId(h) + 1
                 /\ r.m.st[handles[h].numGen].numGen = NextSofaNum(h) + 1
                 /\ r.m.st[handles[h].views].views
                        = Append(views, [k |-> name, v |-> Len(viewHeap) + 1])
                 /\ r.m.st[handles[h].sofas].sofas
                        = Append(sofas, [k |-> name, v |-> Len(viewHeap) + 1])
                 /\ \A k \in 1..Len(handles) : r.m.hd[k] = handles[k]

\* get_view has returned a handle after an annotation was added: the
\* generator of the document stands at 3, where the annotation left it, and
\* the one of the Cas that _copy built at 2
C21_Witness ==
    /\ ret.op = "get_view"
    /\ ret.exc = "none"
    /\ ret.val # 1
    /\ handles[ret.val].xmiGen = handles[1].xmiGen
    /\ NextXmiId(ret.val) = 3
    /\ \E s \in 1..Len(stores) : s # handles[1].xmiGen /\ stores[s].xmiGen = 2

-----------------------------------------------------------------------------
(* Properties of the index and of the containment queries (SpecIndex)      *)

CurrentIndex(h) == viewHeap[handles[h].cur].indices

Inside(o, anchor) == fsHeap[o].begin >= anchor[1] /\ fsHeap[o].end <= anchor[2]
Covers(o, anchor) == fsHeap[o].begin <= anchor[1] /\ fsHeap[o].end >= anchor[2]

\* the structures of the buckets a query for t reads that lie inside the
\* anchor, and those that cover it, bucket by bucket and in index order
AllInside(h, t, anchor) ==
    Chain([n \in TypeNames |-> SelectSeq(CurrentIndex(h)[n], LAMBDA o : Inside(o, anchor))],
          SetToSeq(QueriedTypes(t)))
AllCovering(h, t, anchor) ==
    Chain([n \in TypeNames |-> SelectSeq(CurrentIndex(h)[n], LAMBDA o : Covers(o, anchor))],
          SetToSeq(QueriedTypes(t)))

\* C4: select_covered(type_name, anchor) yields exactly the structures of
\* type_name or a subtype in the current view that lie inside the anchor: the
\* index window never excludes a contained structure.
C4_SelectCoveredExact ==
    \A h \in Handles, t \in AnnotationTypes, anchor \in Spans :
        SelectCovered(Mem, h, t, anchor) = AllInside(h, t, anchor)

\* the spans of a sequence of structures
SpansOf(s) == [i \in 1..Len(s) |-> <<fsHeap[s[i]].begin, fsHeap[s[i]].end>>]

\* the spans of the annotations of type Ann or a subtype in the current view
IndexedSpans(h) == SpansOf(GetFeatureStructures(Mem, h, "Ann"))

\* select_covering yields exactly the structures that cover the anchor, each
\* in the index order of its bucket
SelectCoveringExact ==
    \A h \in Handles, t \in AnnotationTypes, anchor \in Spans :
        SelectCovering(Mem, h, t, anchor) = AllCovering(h, t, anchor)

C10_BucketsSorted ==
    /\ \A v \in 1..Len(viewHeap), t \in TypeNames :
          LET keys == BucketKeys(fsHeap, viewHeap[v].indices[t])
          IN \A i \in 1..(Len(keys) - 1) : KeyLeq(keys[i], keys[i + 1])
    /\ \A o \in 1..Len(fsHeap) :
          IF HasSpan(fsHeap[o].type)
          THEN KeyLess(SortFunc(fsHeap[o]), <<MaxSize, MaxSize>>)
          ELSE SortFunc(fsHeap[o]) = <<MaxSize, MaxSize>>

\* a bucket of three annotations that were added in an order other than
\* their key order
C10_Witness ==
    \E v \in 1..Len(viewHeap) :
        LET b == viewHeap[v].indices["Ann"]
        IN /\ Len(b) = 3
           /\ b[1] > b[2]
           /\ b[2] > b[3]

-----------------------------------------------------------------------------
(* Properties of select and select_all (SpecSelect)                        *)

\* the subtypes of a type, direct and indirect
RECURSIVE Descendants(_)
Descendants(t) == Children(t) \cup UNION {Descendants(c) : c \in Children(t)}

\* how often the sequence s holds x
Occurrences(s, x) == Cardinality({i \in 1..Len(s) : s[i] = x})

\* C16: select(type_name) yields the entries of the current view's index
\* whose type is type_name or one of its direct or indirect subtypes, each
\* entry once and no other feature structure; select_all yields every entry
\* of the current view's index.
C16_SelectAllSubtypes ==
    \A h \in Handles, o \in 1..Len(fsHeap) :
        /\ \A t \in TypeNames :
              Occurrences(Select(Mem, h, t), o) =
                  IF fsHeap[o].type \in Descendants(t) \cup {t}
                  THEN Occurrences(CurrentIndex(h)[fsHeap[o].type], o)
                  ELSE 0
        /\ Occurrences(SelectAll(Mem, h), o)
               = Occurrences(CurrentIndex(h)[fsHeap[o].type], o)

\* C18: a feature structure that is added to a bucket goes behind every
\* entry of the bucket with an equal key, the entries without a position
\* being equal to each other, and the entries that were there keep their
\* order; select of a type yields the entries of the bucket of that type in
\* the order of the bucket.
C18_TiesKeepInsertionOrder ==
    \A h \in Handles :
        /\ \A o \in 1..Len(fsHeap) :
              LET old == CurrentIndex(h)[fsHeap[o].type]
                  new == AddAnnotation(Mem, h, o).vw[handles[h].cur].indices[fsHeap[o].type]
              IN \E pos \in 1..Len(new) :
                    /\ new[pos] = o
                    /\ Without(new, pos) = old
                    /\ \A i \in 1..Len(old) :
                          SortFunc(fsHeap[old[i]]) = SortFunc(fsHeap[o]) => i < pos
        /\ \A t \in TypeNames :
              SelectSeq(Select(Mem, h, t), LAMBDA x : fsHeap[x].type = t) = CurrentIndex(h)[t]

\* a bucket holds an annotation, a second one with the same span that was
\* added later, and the first one again, added after the second
C18_Witness ==
    \E v \in 1..Len(viewHeap), t \in TypeNames :
        LET b == viewHeap[v].indices[t]
        IN \E i, j, k \in 1..Len(b) :
              /\ i < j /\ j < k
              /\ b[i] = b[k] /\ b[i] < b[j]
              /\ SortFunc(fsHeap[b[i]]) = SortFunc(fsHeap[b[j]])
              /\ HasSpan(t)
              /\ ret.op = "select" /\ ret.arg = <<t>> /\ Len(ret.out) >= 3

-----------------------------------------------------------------------------
(* Properties of serialize (SpecSer)                                       *)

Serialized == ret.op = "serialize"

\* the records of the emitted sequence that are Sofa records, and the others
SofaRecords == {i \in 1..Len(wire.fs) : DictGet(wire.fs[i], TYPE_FIELD) = TYPE_NAME_SOFA}
OtherRecords == (1..Len(wire.fs)) \ SofaRecords
RecordId(i) == DictGet(wire.fs[i], ID_FIELD)

\* the feature structures in the index of some view of the serialized document
InSomeIndex ==
    {o \in 1..Len(fsHeap) :
        \E i \in 1..Len(Views(Mem, ret.val)) :
            Occurrences(GetAllAnnotations(Mem, Views(Mem, ret.val)[i]), o) > 0}

-----------------------------------------------------------------------------
(* Properties of the features self and type (SpecRes)                      *)

\* the record that serialize wrote for the feature structure o
RecordOf(o) == wire.fs[CHOOSE i \in 1..Len(wire.fs) : RecordId(i) = fsHeap[o].xmiID]

\* the identifier, the string in type_ and the identifier that self_ refers
\* to of every feature structure in the index of the view of handle h
ResContent(h) ==
    {[xmiID |-> fsHeap[o].xmiID, type_ |-> fsHeap[o].type_,
      self_ |-> IF fsHeap[o].self_ = None THEN NoRef ELSE XmiIdOf(Mem, fsHeap[o].self_)] :
        o \in {p \in 1..Len(fsHeap) :
                  Occurrences(GetAllAnnotations(Mem, handles[h].cur), p) > 0}}

\* C19: serialize writes the feature type_ under the name type and the
\* feature self_, which holds a reference, under the name self with the
\* reference marker, and never under the names type_ and self_; deserialize
\* of what serialize wrote completes and restores both features as type_
\* and self_ with the values they had.
C19_ReservedNamesRoundTrip ==
    /\ Serialized =>
          \A o \in 1..Len(fsHeap) :
              /\ DictHas(RecordOf(o), Plain("type")) <=> fsHeap[o].type_ # NoneStr
              /\ fsHeap[o].type_ # NoneStr =>
                    DictGet(RecordOf(o), Plain("type")) = fsHeap[o].type_
              /\ DictHas(RecordOf(o), RefKey("self")) <=> fsHeap[o].self_ # None
              /\ fsHeap[o].self_ # None =>
                    DictGet(RecordOf(o), RefKey("self")) = XmiIdOf(Mem, fsHeap[o].self_)
              /\ \A k \in DictKeys(RecordOf(o)) : k[2] \notin {"self_", "type_"}
    /\ (ret.op = "deserialize" /\ des.cas # NoRef) =>
          /\ ret.exc = "none"
          /\ ResContent(des.cas) = ResContent(1)

-----------------------------------------------------------------------------
(* Properties of deserialize (SpecJson)                                    *)

\* the identifiers of the records of the source
WireIds == {DictGet(wire.fs[i], ID_FIELD) : i \in 1..Len(wire.fs)}
\* the position of the record with identifier id
WirePos(id) == CHOOSE i \in 1..Len(wire.fs) : DictGet(wire.fs[i], ID_FIELD) = id
\* the records that are no Sofa records, and the reference features of a record
FsRecords == {i \in 1..Len(wire.fs) : DictGet(wire.fs[i], TYPE_FIELD) # TYPE_NAME_SOFA}
RefFeatures(i) == {f \in {"gov", "dep"} : DictHas(wire.fs[i], RefKey(f))}
\* the object deserialize constructed for the identifier id
Constructed(id) == DictGet(des.fsd, id)

\* C3: once deserialize has returned, every reference feature of a record
\* whose target is defined later in the source holds the feature structure
\* constructed for the target, each feature of a record for itself.
C3_ForwardReferencesResolved ==
    Loaded =>
        \A i \in FsRecords : \A f \in RefFeatures(i) :
            LET target == DictGet(wire.fs[i], RefKey(f))
                o == Constructed(DictGet(wire.fs[i], ID_FIELD))[2]
            IN (target \in WireIds /\ WirePos(target) > i)
                   => fsHeap[o][f] = Constructed(target)

\* C5: after deserialize has returned, the next identifier of the document's
\* generator is greater than every identifier of the source, those of the Sofa
\* records included, and what is added next shares no identifier with them.
C5_NextIdAboveSource ==
    /\ Loaded => \A id \in WireIds : NextXmiId(ret.val) > id
    /\ (ret.op = "add_annotation" /\ des.cas # NoRef)
           => fsHeap[ret.val].xmiID \notin WireIds

\* the views of the loaded document
LoadedViews == stores[handles[des.cas].views].views
WireViews == {wire.views[i].k : i \in 1..Len(wire.views)}
SofaRecordNames ==
    {DictGet(wire.fs[i], Plain("sofaID")) : i \in (1..Len(wire.fs)) \ FsRecords}

\* C7: a view of the views section is created only if the Sofa records did
\* not create it: deserialize raises no duplicate-view error, and when it has
\* returned every view the source names exists once.
C7_ViewsCreatedOnce ==
    ret.op = "deserialize" =>
        /\ ret.exc # "ValueError"
        /\ ret.exc = "none" =>
              /\ WireViews \cup SofaRecordNames \subseteq DictKeys(LoadedViews)
              /\ \A i, j \in 1..Len(LoadedViews) :
                    LoadedViews[i].k = LoadedViews[j].k => i = j

\* the sofa numbers the Sofa records of the source carry
WireSofaNums ==
    {DictGet(wire.fs[i], Plain("sofaNum")) : i \in (1..Len(wire.fs)) \ FsRecords}

\* C11: after deserialize has returned, the next sofa number of the
\* document's generator is greater than every sofa number of the source and
\* than the sofa number of every view of the document, and the view created
\* next shares its sofa number with no other view.
C11_NextSofaNumAboveSource ==
    /\ Loaded =>
          /\ \A n \in WireSofaNums : NextSofaNum(ret.val) > n
          /\ \A i \in 1..Len(LoadedViews) :
                NextSofaNum(ret.val) > viewHeap[LoadedViews[i].v].sofaNum
    /\ (ret.op = "create_view" /\ ret.exc = "none" /\ des.cas # NoRef) =>
          \A i, k \in 1..Len(LoadedViews) :
              i # k => viewHeap[LoadedViews[i].v].sofaNum # viewHeap[LoadedViews[k].v].sofaNum

\* the identifiers the views section lists for the view name, none when the
\* section does not name the view
ListedFor(name) ==
    IF name \in WireViews
    THEN wire.views[CHOOSE i \in 1..Len(wire.views) : wire.views[i].k = name].v.index
    ELSE <<>>

\* the views the views section made deserialize create
CreatedBySection == WireViews \ {NAME_DEFAULT_SOFA}

LoadedSofa(name) == viewHeap[DictGet(LoadedViews, name)]

\* C20: after deserialize has returned, the sofa of the view a Sofa record
\* names carries the identifier and the sofa number of the record, and the
\* text, mime type and URI the record gives, for the default view as for a
\* new one; the views of the document are the default view and those the
\* source names, each once.
C20_SofaRecordsSetViews ==
    Loaded =>
        /\ \A i \in (1..Len(wire.fs)) \ FsRecords :
              LET sofa == LoadedSofa(DictGet(wire.fs[i], Plain("sofaID")))
              IN /\ sofa.xmiID = DictGet(wire.fs[i], ID_FIELD)
                 /\ sofa.sofaNum = DictGet(wire.fs[i], Plain("sofaNum"))
                 /\ sofa.sofaString = DictGetOr(wire.fs[i], Plain("sofaString"), NoneStr)
                 /\ sofa.mimeType = DictGetOr(wire.fs[i], Plain("mimeType"), NoneStr)
                 /\ sofa.sofaURI = DictGetOr(wire.fs[i], Plain("sofaURI"), NoneStr)
        /\ DictKeys(LoadedViews) = {NAME_DEFAULT_SOFA} \cup SofaRecordNames \cup WireViews
        /\ Len(LoadedViews) = Cardinality(DictKeys(LoadedViews))

\* the views that only the views section of the source names
OnlyInSection == (WireViews \ SofaRecordNames) \ {NAME_DEFAULT_SOFA}

\* C23: after deserialize has returned, the sofa of a view that only the
\* views section names has an identifier that no record of the source and no
\* other sofa of the document has, and a sofa number that no Sofa record of
\* the source and no other sofa of the document has.
C23_SectionViewsGetFreshValues ==
    Loaded =>
        \A name \in OnlyInSection :
            /\ LoadedSofa(name).xmiID \notin WireIds
            /\ LoadedSofa(name).sofaNum \notin WireSofaNums
            /\ \A other \in DictKeys(LoadedViews) \ {name} :
                  /\ LoadedSofa(name).xmiID # LoadedSofa(other).xmiID
                  /\ LoadedSofa(name).sofaNum # LoadedSofa(other).sofaNum

-----------------------------------------------------------------------------
(* Properties of the array of a sofa (SpecArr)                             *)

\* the Sofa records of the data, and the identifier a Sofa record gives for
\* its array, 0 if it gives none
WireSofas == {i \in 1..Len(wire.fs) : DictGet(wire.fs[i], TYPE_FIELD) = TYPE_NAME_SOFA}
WireArray(i) == DictGetOr(wire.fs[i], RefKey("sofaArray"), NoRef)

\* the sofas of the document that the source loaded
FirstViews == stores[handles[1].views].views

-----------------------------------------------------------------------------
(* Properties of the round trip (SpecRT)                                   *)

\* the identifier a member refers to, 0 for None
RefId(ref) == IF ref = None THEN NoRef ELSE XmiIdOf(Mem, ref)

\* What a document holds, seen through handle h: per view name the sofa
\* contents and the identifiers in its index, and per indexed feature
\* structure its identifier, its fields and the identifiers it refers to
ViewsOf(h) == stores[handles[h].views].views
IndexedIn(v) == {GetAllAnnotations(Mem, v)[j] : j \in 1..Len(GetAllAnnotations(Mem, v))}
Content(h) ==
    [views |-> {[name |-> ViewsOf(h)[i].k,
                 sofaString |-> viewHeap[ViewsOf(h)[i].v].sofaString,
                 mimeType |-> viewHeap[ViewsOf(h)[i].v].mimeType,
                 sofaURI |-> viewHeap[ViewsOf(h)[i].v].sofaURI,
                 index |-> {fsHeap[o].xmiID : o \in IndexedIn(ViewsOf(h)[i].v)}] :
                    i \in 1..Len(ViewsOf(h))},
     fs |-> {[xmiID |-> fsHeap[o].xmiID, type |-> fsHeap[o].type,
              begin |-> fsHeap[o].begin, end |-> fsHeap[o].end,
              sofa |-> RefId(fsHeap[o].sofa),
              gov |-> RefId(fsHeap[o].gov), dep |-> RefId(fsHeap[o].dep)] :
                 o \in UNION {IndexedIn(ViewsOf(h)[i].v) : i \in 1..Len(ViewsOf(h))}}]

\* C1: deserialize of what serialize wrote for a document completes and
\* yields a document with the same view names, sofa contents, identifiers,
\* field values, references and index membership per view.
C1_RoundTrip ==
    (ret.op = "deserialize" /\ des.cas # NoRef) =>
        /\ ret.exc = "none"
        /\ Content(des.cas) = Content(1)

====
